---- MODULE Spec2Model ----
(***************************************************************************)
(* A model of qr_pdf/par2.py: the PAR2 packet codec, the packet scanner,   *)
(* the Main/Creator consolidator, the file-packet bin packer and the       *)
(* stream assembler optimize_for_tar.                                      *)
(*                                                                         *)
(* Bytes are the naturals 0..255 and a bytes object is a sequence of them. *)
(* Python offsets are 0-based; sequences here are 1-based, so the Python   *)
(* slice data[a:b] is Slice(data, a, b).                                   *)
(***************************************************************************)
EXTENDS Integers, Sequences, FiniteSets, TLC

\* ------------------------------------------------------------------------
\* Bounds of the checked input family
\* ------------------------------------------------------------------------
\* how many byte-identical copies of one Main / Creator packet an input holds
MaxCopies == 2
\* how many distinct file packets an input holds
MaxFilePackets == 3
\* how many RecoveryBlock packets an input holds
MaxRecovery == 2

\* ------------------------------------------------------------------------
\* Program constants
\* ------------------------------------------------------------------------
\* tarfile.BLOCKSIZE
TAR_BLOCK_SIZE == 512

PACKET_HEADER_SIZE == 64

\* PacketHeader._magic_expected = b'PAR2\x00PKT'
magic_expected == <<80, 65, 82, 50, 0, 80, 75, 84>>

\* b'PAR 2.0\x00', the common prefix of the five type signatures
SigPrefix == <<80, 65, 82, 32, 50, 46, 48, 0>>

PACKET_TYPES ==
    [Main             |-> SigPrefix \o <<77, 97, 105, 110, 0, 0, 0, 0>>,
     Creator          |-> SigPrefix \o <<67, 114, 101, 97, 116, 111, 114, 0>>,
     FileDescription  |-> SigPrefix \o <<70, 105, 108, 101, 68, 101, 115, 99>>,
     FileVerification |-> SigPrefix \o <<73, 70, 83, 67, 0, 0, 0, 0>>,
     RecoveryBlock    |-> SigPrefix \o <<82, 101, 99, 118, 83, 108, 105, 99>>]

\* PACKET_LOOKUP as if the Creator signature were not in the table
PACKET_LOOKUP_WithoutCreator(signature) ==
    IF \E k \in DOMAIN PACKET_TYPES \ {"Creator"} : PACKET_TYPES[k] = signature
    THEN CHOOSE k \in DOMAIN PACKET_TYPES \ {"Creator"} : PACKET_TYPES[k] = signature
    ELSE "Unknown"

\* PACKET_LOOKUP.get(signature, "Unknown")
PACKET_LOOKUP(signature) ==
    IF \E k \in DOMAIN PACKET_TYPES : PACKET_TYPES[k] = signature
    THEN CHOOSE k \in DOMAIN PACKET_TYPES : PACKET_TYPES[k] = signature
    ELSE "Unknown"

\* PACKET_TYPES.get(packet_type, b'')
SignatureOf(packet_type) ==
    IF packet_type \in DOMAIN PACKET_TYPES THEN PACKET_TYPES[packet_type] ELSE <<>>

\* ------------------------------------------------------------------------
\* bytes helpers
\* ------------------------------------------------------------------------
Min(a, b) == IF a <= b THEN a ELSE b

\* b'\0' * n  (the empty bytes object for n <= 0)
Zeros(n) == [i \in 1..n |-> 0]

\* data[start:stop] for 0 <= start, 0 <= stop
Slice(data, start, stop) ==
    IF Min(stop, Len(data)) <= start THEN <<>>
    ELSE SubSeq(data, start + 1, Min(stop, Len(data)))

\* data[start:]
SliceFrom(data, start) == Slice(data, start, Len(data))

\* struct 'Ns': the value cut or zero-padded to exactly n bytes
PackS(s, n) == [i \in 1..n |-> IF i <= Len(s) THEN s[i] ELSE 0]

\* struct '<Q': 8 bytes, little endian
RECURSIVE PackQ_(_, _)
PackQ_(v, n) == IF n = 0 THEN <<>> ELSE <<v % 256>> \o PackQ_(v \div 256, n - 1)
\* struct '<Q' as if only the lowest byte of the value were kept
PackQ_LowByteOnly(v) == <<v % 256, 0, 0, 0, 0, 0, 0, 0>>

PackQ(v) == PackQ_(v, 8)

RECURSIVE UnpackQ_(_, _)
UnpackQ_(b, n) == IF n = 0 THEN 0 ELSE b[1] + 256 * UnpackQ_(Tail(b), n - 1)
UnpackQ(b) == UnpackQ_(b, 8)

\* hashlib.md5(data).digest(): a 16 byte digest of the bytes. The digest is
\* a positional checksum; the inputs of the checked family are chosen so that
\* different contents have different digests, as for MD5 in practice.
RECURSIVE WSum(_, _, _)
WSum(s, lo, hi) ==
    IF lo > hi THEN 0
    ELSE IF lo = hi THEN ((s[lo] + 1) * ((lo % 251) + 1)) % 65521
    ELSE LET mid == (lo + hi) \div 2
         IN  (WSum(s, lo, mid) + WSum(s, mid + 1, hi)) % 65521

RECURSIVE PSum(_, _, _)
PSum(s, lo, hi) ==
    IF lo > hi THEN 0
    ELSE IF lo = hi THEN s[lo]
    ELSE LET mid == (lo + hi) \div 2
         IN  (PSum(s, lo, mid) + PSum(s, mid + 1, hi)) % 65521

md5(s) ==
    LET a == WSum(s, 1, Len(s))
        b == PSum(s, 1, Len(s))
        n == Len(s)
    IN  PackS(<<a % 256, a \div 256, b % 256, b \div 256, n % 256, (n \div 256) % 256>>, 16)

\* ------------------------------------------------------------------------
\* PacketHeader
\* ------------------------------------------------------------------------
\* struct.calcsize("<8sQ16s16s16s")
size_bytes == 8 + 8 + 16 + 16 + 16

\* struct.unpack_from raises struct.error on a buffer shorter than the format
UnpackRaises(data) == Len(data) < size_bytes

\* PacketHeader.from_bytes, for a buffer of at least 64 bytes
PacketHeader_from_bytes(data) ==
    [magic     |-> Slice(data, 0, 8),
     length    |-> UnpackQ(Slice(data, 8, 16)),
     hash      |-> Slice(data, 16, 32),
     set_id    |-> Slice(data, 32, 48),
     signature |-> Slice(data, 48, 64)]

\* PacketHeader.as_bytes
PacketHeader_as_bytes(h) ==
    PackS(h.magic, 8) \o PackQ(h.length) \o PackS(h.hash, 16)
        \o PackS(h.set_id, 16) \o PackS(h.signature, 16)

\* PacketHeader.type
PacketHeader_type(h) == PACKET_LOOKUP(h.signature)

\* PacketHeader.is_valid as if the magic were not looked at
PacketHeader_is_valid_IgnoresMagic(h) == PacketHeader_type(h) # "Unknown"

\* PacketHeader.is_valid
PacketHeader_is_valid(h) ==
    h.magic = magic_expected /\ PacketHeader_type(h) # "Unknown"

\* ------------------------------------------------------------------------
\* Packet: [header, data (the bytes after the header), cls (the Python class)]
\* ------------------------------------------------------------------------
\* Packet.as_bytes
Packet_as_bytes(p) == PacketHeader_as_bytes(p.header) \o p.data

\* Packet._generate_hash
generate_hash(p) == md5(SliceFrom(Packet_as_bytes(p), 32))

\* Packet.__len__
Packet_len(p) == p.header.length

\* Packet.__init__ without the header keyword
NewPacket(cls, packet_type, set_id, data) ==
    LET header == [magic     |-> magic_expected,
                   length    |-> PACKET_HEADER_SIZE + Len(data),
                   hash      |-> <<>>,
                   set_id    |-> set_id,
                   signature |-> SignatureOf(packet_type)]
        blank  == [header |-> header, data |-> data, cls |-> cls]
    IN  [blank EXCEPT !.header.hash = generate_hash(blank)]

\* Packet.from_bytes as if the payload ended one byte early
Packet_from_bytes_OneByteShort(data) ==
    LET header == PacketHeader_from_bytes(data)
    IN  [header |-> header,
         data   |-> Slice(data, PACKET_HEADER_SIZE, header.length - 1),
         cls    |-> "Packet"]

\* Packet.from_bytes, for a buffer of at least 64 bytes
Packet_from_bytes(data) ==
    LET header == PacketHeader_from_bytes(data)
    IN  [header |-> header,
         data   |-> Slice(data, PACKET_HEADER_SIZE, header.length),
         cls    |-> "Packet"]

\* Packet.is_valid
Packet_is_valid(p) ==
    /\ PacketHeader_is_valid(p.header)
    /\ Len(p.data) + PACKET_HEADER_SIZE = p.header.length
    /\ generate_hash(p) = p.header.hash

\* isinstance(other, self.__class__) as if it were isinstance(other, Packet)
IsInstance_OfPacket(other, self) == TRUE

\* isinstance(other, self.__class__)
IsInstance(other, self) == self.cls = "Packet" \/ other.cls = "CreatorPacket"

\* Packet.__eq__ as called for self == other
Packet_eq(self, other) == IsInstance(other, self) /\ self.header = other.header

\* CreatorPacket.__init__ without the header keyword
NewCreatorPacket(client, set_id) ==
    LET padding == 4 - (Len(client) % 4)
    IN  NewPacket("CreatorPacket", "Creator", set_id, client \o Zeros(padding))

\* ------------------------------------------------------------------------
\* get_packets
\* ------------------------------------------------------------------------
\* the 0-based offsets where re.finditer(magic) matches (the magic cannot
\* overlap itself, so every occurrence is a match)
MatchSet(data) ==
    {i \in 0..(Len(data) - 8) :
        /\ data[i + 1] = 80 /\ data[i + 2] = 65 /\ data[i + 3] = 82
        /\ data[i + 4] = 50 /\ data[i + 5] = 0  /\ data[i + 6] = 80
        /\ data[i + 7] = 75 /\ data[i + 8] = 84}

\* Ascending as if the matches came last first
RECURSIVE Ascending_LargestFirst(_)
Ascending_LargestFirst(S) ==
    IF S = {} THEN <<>>
    ELSE LET m == CHOOSE x \in S : \A y \in S : x >= y
         IN  <<m>> \o Ascending_LargestFirst(S \ {m})

RECURSIVE Ascending(_)
Ascending(S) ==
    IF S = {} THEN <<>>
    ELSE LET m == CHOOSE x \in S : \A y \in S : x <= y
         IN  <<m>> \o Ascending(S \ {m})

\* the generator get_packets(data, packet_type), run to its end: the packets
\* it yields, in order, and whether it ends by raising struct.error (at the
\* first match with fewer than 64 bytes after it). packet_type "" is None.
RECURSIVE get_packets_(_, _, _)
get_packets_(data, packet_type, matches) ==
    IF matches = <<>> THEN [packets |-> <<>>, raised |-> FALSE]
    ELSE LET rest == SliceFrom(data, Head(matches))
         IN  IF UnpackRaises(rest) THEN [packets |-> <<>>, raised |-> TRUE]
             ELSE LET packet == Packet_from_bytes(rest)
                      more   == get_packets_(data, packet_type, Tail(matches))
                  IN  IF packet_type = "" \/ PacketHeader_type(packet.header) = packet_type
                      THEN [more EXCEPT !.packets = <<packet>> \o @]
                      ELSE more

get_packets(data, packet_type) ==
    get_packets_(data, packet_type, Ascending(MatchSet(data)))

\* _get_unused_block_size without the early return for a full block
get_unused_block_size_NeverZero(used) ==
    TAR_BLOCK_SIZE - (used % TAR_BLOCK_SIZE)

\* _get_unused_block_size
get_unused_block_size(used) ==
    IF used % TAR_BLOCK_SIZE = 0 THEN 0
    ELSE TAR_BLOCK_SIZE - (used % TAR_BLOCK_SIZE)

\* ------------------------------------------------------------------------
\* _get_optimized_main
\* ------------------------------------------------------------------------
\* AllEqualFirst as if equal packets were never recognised as duplicates
AllEqualFirst_NeverDuplicates(packets) == Len(packets) <= 1

\* all(packet == packets[0] for packet in packets)
AllEqualFirst(packets) ==
    \A i \in 1..Len(packets) : Packet_eq(packets[i], packets[1])

\* "qr-pdf on {}".format(date), date an ISO date of 10 characters
ClientString(date) == <<113, 114, 45, 112, 100, 102, 32, 111, 110, 32>> \o date

\* lines 302-312: the merged bytes and the Creator packet handed back
\* (<<>> is None, <<c>> is the packet c)
MergeMainCreator(main, creator) ==
    LET bin_bytes_remaining == get_unused_block_size(Packet_len(main))
    IN  IF bin_bytes_remaining >= Packet_len(creator)
        THEN [err         |-> "",
              out         |-> Packet_as_bytes(main) \o Packet_as_bytes(creator)
                                \o Zeros(bin_bytes_remaining - Packet_len(creator)),
              creator_out |-> <<>>]
        ELSE [err         |-> "",
              out         |-> Packet_as_bytes(main) \o Zeros(bin_bytes_remaining),
              creator_out |-> <<creator>>]

\* the result of a call that raises
Raise(error) == [err |-> error, out |-> <<>>, creator_out |-> <<>>]

\* lines 281-287
CreatorsDiffer(creator_packets) ==
    Len(creator_packets) > 1 /\ ~AllEqualFirst(creator_packets)

\* lines 288-294
MainsDiffer(main_packets) ==
    Len(main_packets) > 1 /\ ~AllEqualFirst(main_packets)

\* get_optimized_main as if the missing Main packet were checked first
get_optimized_main_MainCheckedFirst(data, date) ==
    LET creators == get_packets(data, "Creator")
        mains    == get_packets(data, "Main")
    IN  IF creators.raised \/ mains.raised THEN Raise("struct.error")
        ELSE IF Len(mains.packets) < 1
             THEN Raise("ValueError: Main packet not found!")
        ELSE IF CreatorsDiffer(creators.packets)
             THEN Raise("ValueError: multiple different Creator packets")
        ELSE IF MainsDiffer(mains.packets)
             THEN Raise("ValueError: multiple different Main packets")
        ELSE LET main    == mains.packets[1]
                 creator == IF Len(creators.packets) < 1
                            THEN NewCreatorPacket(ClientString(date), main.header.set_id)
                            ELSE creators.packets[1]
             IN  MergeMainCreator(main, creator)

\* _get_optimized_main(data), called on the date `date`
get_optimized_main(data, date) ==
    LET creators == get_packets(data, "Creator")
        mains    == get_packets(data, "Main")
    IN  IF creators.raised \/ mains.raised THEN Raise("struct.error")
        ELSE IF CreatorsDiffer(creators.packets)
             THEN Raise("ValueError: multiple different Creator packets")
        ELSE IF MainsDiffer(mains.packets)
             THEN Raise("ValueError: multiple different Main packets")
        ELSE IF Len(mains.packets) < 1
             THEN Raise("ValueError: Main packet not found!")
        ELSE LET main    == mains.packets[1]
                 creator == IF Len(creators.packets) < 1
                            THEN NewCreatorPacket(ClientString(date), main.header.set_id)
                            ELSE creators.packets[1]
             IN  MergeMainCreator(main, creator)

\* ------------------------------------------------------------------------
\* _get_optimized_file_data
\* ------------------------------------------------------------------------
\* the elements of set(packets): of the packets with one header, the first
RECURSIVE Distinct(_)
Distinct(packets) ==
    IF packets = <<>> THEN <<>>
    ELSE LET rest == Distinct(SubSeq(packets, 1, Len(packets) - 1))
             last == packets[Len(packets)]
         IN  IF \E i \in 1..Len(rest) : Packet_eq(rest[i], last)
             THEN rest ELSE Append(rest, last)

\* the orders in which list(set) can hold the packets: a set iterates in the
\* order of the element hashes, which for bytes differ from process to process
ListOrders(packets) ==
    LET n == Len(packets)
    IN  {[i \in 1..n |-> packets[f[i]]] :
            f \in {g \in [1..n -> 1..n] : \A i, j \in 1..n : g[i] = g[j] => i = j}}

\* list.sort(key=len, reverse=True): stable, equal sizes keep their order
RECURSIVE SortBySizeDescending(_)
SortBySizeDescending(packets) ==
    IF packets = <<>> THEN <<>>
    ELSE LET rest == SortBySizeDescending(SubSeq(packets, 1, Len(packets) - 1))
             last == packets[Len(packets)]
             k    == Cardinality({i \in 1..Len(rest) :
                                    Packet_len(rest[i]) >= Packet_len(last)})
         IN  SubSeq(rest, 1, k) \o <<last>> \o SubSeq(rest, k + 1, Len(rest))

\* FirstFit as if the space left were not reduced by an appended packet
RECURSIVE FirstFit_NoDecrement(_, _, _)
FirstFit_NoDecrement(packets, i, bin_bytes_remaining) ==
    IF i > Len(packets)
    THEN [out |-> <<>>, remaining |-> bin_bytes_remaining, to_drop |-> {}]
    ELSE IF Packet_len(packets[i]) <= bin_bytes_remaining
         THEN LET more == FirstFit_NoDecrement(packets, i + 1, bin_bytes_remaining)
              IN  [more EXCEPT !.out = Packet_as_bytes(packets[i]) \o @,
                               !.to_drop = @ \cup {i}]
         ELSE FirstFit_NoDecrement(packets, i + 1, bin_bytes_remaining)

\* FirstFit as if the pass ended at the first packet that does not fit
RECURSIVE FirstFit_StopsAtFirstMisfit(_, _, _)
FirstFit_StopsAtFirstMisfit(packets, i, bin_bytes_remaining) ==
    IF i > Len(packets)
    THEN [out |-> <<>>, remaining |-> bin_bytes_remaining, to_drop |-> {}]
    ELSE IF Packet_len(packets[i]) <= bin_bytes_remaining
         THEN LET more == FirstFit_StopsAtFirstMisfit(packets, i + 1,
                                   bin_bytes_remaining - Packet_len(packets[i]))
              IN  [more EXCEPT !.out = Packet_as_bytes(packets[i]) \o @,
                               !.to_drop = @ \cup {i}]
         ELSE [out |-> <<>>, remaining |-> bin_bytes_remaining, to_drop |-> {}]

\* lines 352-357, the first-fit pass over the packets left, from index i:
\* the bytes appended, the space left and the indices to drop
RECURSIVE FirstFit(_, _, _)
FirstFit(packets, i, bin_bytes_remaining) ==
    IF i > Len(packets)
    THEN [out |-> <<>>, remaining |-> bin_bytes_remaining, to_drop |-> {}]
    ELSE IF Packet_len(packets[i]) <= bin_bytes_remaining
         THEN LET more == FirstFit(packets, i + 1,
                                   bin_bytes_remaining - Packet_len(packets[i]))
              IN  [more EXCEPT !.out = Packet_as_bytes(packets[i]) \o @,
                               !.to_drop = @ \cup {i}]
         ELSE FirstFit(packets, i + 1, bin_bytes_remaining)

\* DropIndices as if the indices were deleted from the lowest up: every
\* deletion shifts the packets after it, and an index past the end is skipped
RECURSIVE DeleteAscending(_, _)
DeleteAscending(packets, indices) ==
    IF indices = <<>> THEN packets
    ELSE LET i == Head(indices)
         IN  IF i > Len(packets) THEN DeleteAscending(packets, Tail(indices))
             ELSE DeleteAscending(SubSeq(packets, 1, i - 1)
                                    \o SubSeq(packets, i + 1, Len(packets)),
                                  Tail(indices))
DropIndices_Ascending(packets, to_drop) ==
    DeleteAscending(packets, Ascending(to_drop))

\* del file_packets[i] for every i in to_drop
DropIndices(packets, to_drop) ==
    LET keep == Ascending({i \in 1..Len(packets) : i \notin to_drop})
    IN  [j \in 1..Len(keep) |-> packets[keep[j]]]

\* one iteration of the while loop as if it neither popped nor wrote anything
PackOneBin_PacksNothing(packets) ==
    [out |-> <<>>, file_packets |-> packets]

\* one iteration of the while loop, lines 344-361: the bytes of one bin and
\* the packets still to pack
PackOneBin(packets) ==
    LET packet              == Head(packets)
        left                == Tail(packets)
        bin_bytes_remaining == get_unused_block_size(Packet_len(packet))
    IN  IF bin_bytes_remaining <= PACKET_HEADER_SIZE
        THEN [out          |-> Packet_as_bytes(packet) \o Zeros(bin_bytes_remaining),
              file_packets |-> left]
        ELSE LET pass == FirstFit(left, 1, bin_bytes_remaining)
             IN  [out          |-> Packet_as_bytes(packet) \o pass.out
                                      \o Zeros(pass.remaining),
                  file_packets |-> DropIndices(left, pass.to_drop)]

\* ------------------------------------------------------------------------
\* The input buffers checked: PAR2 packets built by the composing
\* constructor, damaged copies of them, and garbage between and after them
\* ------------------------------------------------------------------------
SetIdX == [i \in 1..16 |-> 160 + i]

\* n payload bytes
Fill(n, seed) == [i \in 1..n |-> (i * seed + 7) % 256]

Compose(packet_type, data) ==
    Packet_as_bytes(NewPacket("Packet", packet_type, SetIdX, data))

\* Main packets: payload 8 + 4 + 16 * (number of files)
MainA    == Compose("Main", Fill(44, 3))
MainB    == Compose("Main", Fill(44, 5))
\* 508 bytes: 4 bytes are left in its block
MainBig  == Compose("Main", Fill(444, 3))
\* 556 bytes: longer than one block
MainLong == Compose("Main", Fill(492, 3))
\* 412 bytes: 100 bytes are left in its block
MainMid  == Compose("Main", Fill(348, 3))
\* MainA with its last payload byte changed and its header kept
MainACorrupt == [MainA EXCEPT ![Len(MainA)] = (@ + 1) % 256]

\* "tool v1", "tool v2"
CreatorA == Packet_as_bytes(NewCreatorPacket(<<116, 111, 111, 108, 32, 118, 49>>, SetIdX))
CreatorB == Packet_as_bytes(NewCreatorPacket(<<116, 111, 111, 108, 32, 118, 50>>, SetIdX))
\* a client string of 38 letters: a Creator packet of 104 bytes
CreatorLong ==
    Packet_as_bytes(NewCreatorPacket([i \in 1..38 |-> 97 + (i % 26)], SetIdX))

\* file packets of 600, 200, 200, 448, 100 and 64 bytes (a header and no body)
FileCatalog ==
    << Compose("FileDescription", Fill(536, 11)),
       Compose("FileDescription", Fill(136, 13)),
       Compose("FileDescription", Fill(136, 17)),
       Compose("FileVerification", Fill(384, 19)),
       Compose("FileVerification", Fill(36, 23)),
       Compose("FileVerification", <<>>) >>

\* recovery packets of 512 and 580 bytes, and a bare header whose length
\* field says 30
RecoveryShort ==
    PacketHeader_as_bytes([magic |-> magic_expected, length |-> 30,
                           hash |-> Fill(16, 29), set_id |-> SetIdX,
                           signature |-> PACKET_TYPES.RecoveryBlock])
RecoveryCatalog ==
    << Compose("RecoveryBlock", Fill(448, 31)),
       Compose("RecoveryBlock", Fill(516, 37)),
       RecoveryShort >>

\* what follows the last packet: nothing, garbage, the magic with fewer than
\* 64 bytes after it, or a packet cut off by the end of the buffer
Tails ==
    { <<>>,
      <<1, 2, 3, 80, 65, 82>>,
      magic_expected \o <<9, 9, 9, 9>>,
      Slice(RecoveryCatalog[1], 0, 100),
      Slice(MainA, 0, 80),
      Slice(CreatorA, 0, 70),
      Slice(FileCatalog[2], 0, 150) }

\* garbage between two packets
Gap == <<0, 255, 80>>

Copies(piece, n) == [i \in 1..n |-> piece]

MainChoices ==
    { <<>>, <<MainA, MainB>>, <<MainA, MainACorrupt>>, <<MainBig>>, <<MainLong>>,
      <<MainMid>> }
        \cup { Copies(MainA, n) : n \in 1..MaxCopies }

CreatorChoices ==
    { <<>>, <<CreatorA, CreatorB>>, <<CreatorLong>> }
        \cup { Copies(CreatorA, n) : n \in 1..MaxCopies }

FileChoices ==
    { [j \in 1..Cardinality(S) |-> FileCatalog[Ascending(S)[j]]] :
        S \in { T \in SUBSET (1..Len(FileCatalog)) : Cardinality(T) <= MaxFilePackets } }
        \cup { <<FileCatalog[2], FileCatalog[5], FileCatalog[2]>> }

RECURSIVE SeqsUpTo(_, _)
SeqsUpTo(S, n) ==
    IF n = 0 THEN { <<>> }
    ELSE LET shorter == SeqsUpTo(S, n - 1)
         IN  shorter \cup { Append(q, x) : q \in shorter, x \in S }

RecoveryChoices ==
    SeqsUpTo({ RecoveryCatalog[i] : i \in 1..Len(RecoveryCatalog) }, MaxRecovery)

\* the dates on which the run happens, as datetime.now().date() prints them:
\* "2021-05-01" and "2021-05-02"
Dates == { <<50, 48, 50, 49, 45, 48, 53, 45, 48, 49>>,
           <<50, 48, 50, 49, 45, 48, 53, 45, 48, 50>> }
FirstDate == <<50, 48, 50, 49, 45, 48, 53, 45, 48, 49>>

\* the input families: one part of the input varies, the others are fixed
Layouts ==
    { [mains |-> x[1], creators |-> x[2], files |-> <<FileCatalog[2]>>,
       recs |-> <<RecoveryCatalog[1]>>, tail |-> x[3], date |-> x[4]] :
        x \in { y \in MainChoices \X CreatorChoices \X Tails \X Dates :
                  y[2] = <<>> \/ y[4] = FirstDate } }
    \cup
    { [mains |-> <<MainA>>, creators |-> <<CreatorA>>, files |-> f,
       recs |-> <<RecoveryCatalog[1]>>, tail |-> t, date |-> FirstDate] :
        f \in FileChoices, t \in { <<>>, Slice(FileCatalog[2], 0, 150) } }
    \cup
    { [mains |-> <<MainA>>, creators |-> <<CreatorA>>, files |-> f,
       recs |-> r, tail |-> t, date |-> FirstDate] :
        f \in { <<>>, <<FileCatalog[4]>> }, r \in RecoveryChoices, t \in Tails }

RECURSIVE Join(_)
Join(pieces) ==
    IF pieces = <<>> THEN <<>> ELSE Head(pieces) \o Gap \o Join(Tail(pieces))

\* the buffer of a layout
Render(l) == Gap \o Join(l.files \o l.mains \o l.creators \o l.recs) \o l.tail

\* ------------------------------------------------------------------------
\* optimize_for_tar as a state machine
\* ------------------------------------------------------------------------
VARIABLES
    in_file,         \* the input buffer
    today,           \* datetime.now().date()
    pc,              \* where optimize_for_tar is
    err,             \* the exception that ended the run ("" for none)
    out,             \* the bytes written to the destination so far
    written,         \* the local counter `written`
    main_data,       \* line 398
    creator_packet,  \* line 398: <<>> is None
    file_packets,    \* the list file_packets of _get_optimized_file_data
    file_data,       \* the local `out` of _get_optimized_file_data, then line 402
    recovery,        \* what the generator of line 411 still has to yield
    recovery_count,
    recovery_written,
    arg,             \* the arguments of a call of one of the packet functions
    op,              \* the function called ("" before the call)
    ret              \* what the call returned

\* the variables of optimize_for_tar
tar_vars == << in_file, today, pc, err, out, written, main_data, creator_packet,
               file_packets, file_data, recovery, recovery_count, recovery_written >>

vars == << in_file, today, pc, err, out, written, main_data, creator_packet,
           file_packets, file_data, recovery, recovery_count, recovery_written,
           arg, op, ret >>

Init ==
    /\ \E l \in Layouts : in_file = Render(l) /\ today = l.date
    /\ pc = "get_main"
    /\ err = ""
    /\ out = <<>>
    /\ written = 0
    /\ main_data = <<>>
    /\ creator_packet = <<>>
    /\ file_packets = <<>>
    /\ file_data = <<>>
    /\ recovery = [packets |-> <<>>, raised |-> FALSE]
    /\ recovery_count = 0
    /\ recovery_written = 0
    /\ arg = <<>>
    /\ op = ""
    /\ ret = <<>>

\* out.write(data), returning len(data)
Write(data) == out' = out \o data

\* line 398
GetOptimizedMain ==
    /\ pc = "get_main"
    /\ LET r == get_optimized_main(in_file, today)
       IN  /\ err' = r.err
           /\ main_data' = r.out
           /\ creator_packet' = r.creator_out
           /\ pc' = IF r.err = "" THEN "write_main" ELSE "failed"
    /\ UNCHANGED << arg, op, ret,
                    in_file, today, out, written, file_packets, file_data,
                    recovery, recovery_count, recovery_written >>

\* line 399
WriteMain ==
    /\ pc = "write_main"
    /\ Write(main_data)
    /\ written' = written + Len(main_data)
    /\ pc' = "get_file_packets"
    /\ UNCHANGED << arg, op, ret,
                    in_file, today, err, main_data, creator_packet, file_packets,
                    file_data, recovery, recovery_count, recovery_written >>

\* line 402, entering _get_optimized_file_data: lines 324-342
GetFilePackets ==
    /\ pc = "get_file_packets"
    /\ LET descriptions  == get_packets(in_file, "FileDescription")
           verifications == get_packets(in_file, "FileVerification")
       IN  IF descriptions.raised \/ verifications.raised
           THEN /\ pc' = "failed"
                /\ err' = "struct.error"
                /\ file_packets' = <<>>
           ELSE /\ pc' = "pack"
                /\ err' = err
                /\ \E listed \in ListOrders(Distinct(descriptions.packets
                                                     \o verifications.packets)) :
                       file_packets' = SortBySizeDescending(listed)
    /\ file_data' = <<>>
    /\ UNCHANGED << arg, op, ret,
                    in_file, today, out, written, main_data, creator_packet,
                    recovery, recovery_count, recovery_written >>

\* one iteration of the loop of lines 343-361
PackBin ==
    /\ pc = "pack"
    /\ file_packets # <<>>
    /\ LET bin == PackOneBin(file_packets)
       IN  /\ file_data' = file_data \o bin.out
           /\ file_packets' = bin.file_packets
    /\ UNCHANGED << arg, op, ret,
                    in_file, today, pc, err, out, written, main_data,
                    creator_packet, recovery, recovery_count, recovery_written >>

\* line 362, the return, and line 403
WriteFileData ==
    /\ pc = "pack"
    /\ file_packets = <<>>
    /\ Write(file_data)
    /\ written' = written + Len(file_data)
    /\ pc' = "assert"
    /\ UNCHANGED << arg, op, ret,
                    in_file, today, err, main_data, creator_packet, file_packets,
                    file_data, recovery, recovery_count, recovery_written >>

\* lines 404-411: the assertion, then the generator of the recovery packets
AssertWholeBlocks ==
    /\ pc = "assert"
    /\ IF (Len(main_data) + Len(file_data)) % TAR_BLOCK_SIZE = 0
       THEN /\ pc' = "recovery"
            /\ err' = err
            /\ recovery' = get_packets(in_file, "RecoveryBlock")
       ELSE /\ pc' = "failed"
            /\ err' = "AssertionError"
            /\ recovery' = recovery
    /\ UNCHANGED << arg, op, ret,
                    in_file, today, out, written, main_data, creator_packet,
                    file_packets, file_data, recovery_count, recovery_written >>

\* lines 411-416, one recovery packet
WriteRecoveryPacket ==
    /\ pc = "recovery"
    /\ recovery.packets # <<>>
    /\ LET packet              == Head(recovery.packets)
           bin_bytes_remaining == get_unused_block_size(Packet_len(packet))
           data                == Packet_as_bytes(packet) \o Zeros(bin_bytes_remaining)
       IN  /\ Write(data)
           /\ recovery_written' = recovery_written + Len(data)
    /\ recovery_count' = recovery_count + 1
    /\ recovery' = [recovery EXCEPT !.packets = Tail(@)]
    /\ UNCHANGED << arg, op, ret,
                    in_file, today, pc, err, written, main_data, creator_packet,
                    file_packets, file_data >>

\* WriteFileDataAgain as if line 421 wrote main_data
WriteFileDataAgain_MainFirst ==
    /\ pc = "recovery"
    /\ recovery.packets = <<>>
    /\ pc' = "write_main_again"
    /\ err' = err
    /\ Write(main_data)
    /\ written' = written + recovery_written + Len(main_data)
    /\ UNCHANGED << arg, op, ret,
                    in_file, today, main_data, creator_packet, file_packets,
                    file_data, recovery, recovery_count, recovery_written >>

\* WriteFileDataAgain as if lines 419-420 were not commented out: the Creator
\* packet that did not fit is written before the file data
WriteFileDataAgain_WithCreator ==
    /\ pc = "recovery"
    /\ recovery.packets = <<>>
    /\ IF recovery.raised
       THEN /\ pc' = "failed"
            /\ err' = "struct.error"
            /\ UNCHANGED << out, written >>
       ELSE /\ pc' = "write_main_again"
            /\ err' = err
            /\ IF creator_packet = <<>> THEN Write(file_data)
               ELSE Write(Packet_as_bytes(creator_packet[1]) \o file_data)
            /\ written' = written + recovery_written + Len(file_data)
    /\ UNCHANGED << arg, op, ret,
                    in_file, today, main_data, creator_packet, file_packets,
                    file_data, recovery, recovery_count, recovery_written >>

\* the end of the loop, and lines 417-421
WriteFileDataAgain ==
    /\ pc = "recovery"
    /\ recovery.packets = <<>>
    /\ IF recovery.raised
       THEN /\ pc' = "failed"
            /\ err' = "struct.error"
            /\ UNCHANGED << out, written >>
       ELSE /\ pc' = "write_main_again"
            /\ err' = err
            /\ Write(file_data)
            /\ written' = written + recovery_written + Len(file_data)
    /\ UNCHANGED << arg, op, ret,
                    in_file, today, main_data, creator_packet, file_packets,
                    file_data, recovery, recovery_count, recovery_written >>

\* line 422
WriteMainAgain ==
    /\ pc = "write_main_again"
    /\ Write(main_data)
    /\ written' = written + Len(main_data)
    /\ pc' = "done"
    /\ UNCHANGED << arg, op, ret,
                    in_file, today, err, main_data, creator_packet, file_packets,
                    file_data, recovery, recovery_count, recovery_written >>

Next ==
    \/ GetOptimizedMain
    \/ WriteMain
    \/ GetFilePackets
    \/ PackBin
    \/ WriteFileData
    \/ AssertWholeBlocks
    \/ WriteRecoveryPacket
    \/ WriteFileDataAgain
    \/ WriteMainAgain

Spec == Init /\ [][Next]_vars

\* ------------------------------------------------------------------------
\* What the claims speak about
\* ------------------------------------------------------------------------
\* the run has ended without an exception
Completed == pc = "done"

\* the run has ended with an exception
Failed == pc = "failed"

\* _get_optimized_main has returned its merged bytes
MainReturned == pc \notin { "get_main", "failed" } \/ err = "AssertionError"

\* _get_optimized_file_data has returned its packed block
FileDataReturned ==
    pc \in { "assert", "recovery", "write_main_again", "done" } \/ err = "AssertionError"

\* some magic match of the buffer has fewer than 64 bytes after it
ScanRaises(data) == \E m \in MatchSet(data) : UnpackRaises(SliceFrom(data, m))

\* the packets of one type that the buffer holds
PacketsOfType(data, packet_type) == get_packets(data, packet_type).packets

\* the buffer holds a Main packet
HasMain(data) ==
    \E m \in MatchSet(data) :
        /\ ~UnpackRaises(SliceFrom(data, m))
        /\ PacketHeader_type(PacketHeader_from_bytes(SliceFrom(data, m))) = "Main"

\* the distinct file packets of the buffer
DistinctFilePackets(data) ==
    Distinct(PacketsOfType(data, "FileDescription")
                \o PacketsOfType(data, "FileVerification"))

\* the packet's serialization has the length its header states
Whole(p) == Len(Packet_as_bytes(p)) = Packet_len(p)

RECURSIVE SumOfSizes(_)
SumOfSizes(packets) ==
    IF packets = <<>> THEN 0 ELSE Packet_len(Head(packets)) + SumOfSizes(Tail(packets))

\* how often the bytes occur in data (they begin with the magic)
Occurrences(bytes, data) ==
    Cardinality({ m \in MatchSet(data) : Slice(data, m, m + Len(bytes)) = bytes })

\* every recovery packet of the buffer, each followed by zeros up to the next
\* multiple of 512 of its size
RECURSIVE PaddedEach(_)
PaddedEach(packets) ==
    IF packets = <<>> THEN <<>>
    ELSE LET size == Packet_len(Head(packets))
             pad  == (TAR_BLOCK_SIZE - (size % TAR_BLOCK_SIZE)) % TAR_BLOCK_SIZE
         IN  Packet_as_bytes(Head(packets)) \o Zeros(pad) \o PaddedEach(Tail(packets))

\* all packets of the sequence have the same bytes
ByteIdentical(packets) ==
    \A i \in 1..Len(packets) : Packet_as_bytes(packets[i]) = Packet_as_bytes(packets[1])

\* the 0-based offsets of the packets of one type, ascending
OffsetsOfType(data, packet_type) ==
    Ascending({ m \in MatchSet(data) :
                  /\ ~UnpackRaises(SliceFrom(data, m))
                  /\ PacketHeader_type(PacketHeader_from_bytes(SliceFrom(data, m)))
                        = packet_type })

\* data without the packets that start at the given offsets, taken from the
\* last offset to the first
RECURSIVE CutPackets(_, _)
CutPackets(data, offsets) ==
    IF offsets = <<>> THEN data
    ELSE LET m    == offsets[Len(offsets)]
             size == Len(Packet_as_bytes(Packet_from_bytes(SliceFrom(data, m))))
         IN  CutPackets(Slice(data, 0, m) \o SliceFrom(data, m + size),
                        SubSeq(offsets, 1, Len(offsets) - 1))

\* the input with a single copy: the buffer without every Main packet after
\* the first and every Creator packet after the first
AfterFirst(offsets) == IF offsets = <<>> THEN <<>> ELSE Tail(offsets)
OneCreator(data) == CutPackets(data, AfterFirst(OffsetsOfType(data, "Creator")))
SingleCopy(data) ==
    CutPackets(OneCreator(data), AfterFirst(OffsetsOfType(OneCreator(data), "Main")))

\* ------------------------------------------------------------------------
\* C1
\* ------------------------------------------------------------------------
\* C1: when optimize_for_tar runs to completion, the number of bytes written
\* to the destination is a multiple of 512.
C1_TotalIsWholeBlocks ==
    Completed => Len(out) % TAR_BLOCK_SIZE = 0 /\ written % TAR_BLOCK_SIZE = 0

\* ------------------------------------------------------------------------
\* C2
\* ------------------------------------------------------------------------
\* C2: the output of a completed run is, in this order, the consolidated
\* Main(+Creator) block, the packed file-packet block, every RecoveryBlock
\* packet with its own padding, the packed file-packet block again and the
\* consolidated block again; it begins and ends with the consolidated block.
C2_SectionOrder ==
    Completed =>
        /\ main_data = get_optimized_main(in_file, today).out
        /\ out = main_data \o file_data
                    \o PaddedEach(PacketsOfType(in_file, "RecoveryBlock"))
                    \o file_data \o main_data
        /\ Slice(out, 0, Len(main_data)) = main_data
        /\ SliceFrom(out, Len(out) - Len(main_data)) = main_data

\* a completed run that wrote all five sections, two recovery packets among them
C2_Witness ==
    /\ Completed
    /\ main_data # <<>>
    /\ file_data # <<>>
    /\ recovery_count = 2

\* ------------------------------------------------------------------------
\* C3
\* ------------------------------------------------------------------------
\* C3 as stated (read for buffers that scan without an exception): when the
\* input holds no Main packet, optimize_for_tar fails with the missing-Main
\* error and nothing has been written.
C3_MissingMainErrorAlways ==
    (~HasMain(in_file) /\ ~ScanRaises(in_file) /\ pc # "get_main") =>
        /\ Failed
        /\ err = "ValueError: Main packet not found!"
        /\ out = <<>>

\* two packets of the sequence have different headers
HeadersDiffer(packets) ==
    \E i, j \in 1..Len(packets) : packets[i].header # packets[j].header

\* the error a run on a buffer without Main packet ends with
NoMainError(data) ==
    IF ScanRaises(data) THEN "struct.error"
    ELSE IF HeadersDiffer(PacketsOfType(data, "Creator"))
         THEN "ValueError: multiple different Creator packets"
    ELSE "ValueError: Main packet not found!"

\* C3 amended: when the input holds no Main packet, optimize_for_tar fails
\* and nothing has been written; the error is the missing-Main error unless
\* an earlier check fails: the scan (struct.error), or two Creator packets
\* found have different headers (the error about different Creator packets).
C3_NoMainFailsUnwritten ==
    (~HasMain(in_file) /\ pc # "get_main") =>
        /\ Failed
        /\ err = NoMainError(in_file)
        /\ out = <<>>
        /\ written = 0

\* a run on a buffer without Main packet, with Creator packets that agree,
\* has failed with the missing-Main error
C3_Witness ==
    /\ ~HasMain(in_file)
    /\ PacketsOfType(in_file, "Creator") # <<>>
    /\ Failed
    /\ err = "ValueError: Main packet not found!"

\* ------------------------------------------------------------------------
\* C4
\* ------------------------------------------------------------------------
\* C4: whenever optimize_for_tar fails, by a raised error or by the failed
\* assertion, nothing has been written to the destination.
C4_FailureWritesNothing == Failed => out = <<>>

\* ------------------------------------------------------------------------
\* C5
\* ------------------------------------------------------------------------
\* the packet found at offset m of data lies inside one 512 byte block
InsideOneBlock(data, m) ==
    LET size == PacketHeader_from_bytes(SliceFrom(data, m)).length
    IN  (m \div TAR_BLOCK_SIZE) = ((m + size - 1) \div TAR_BLOCK_SIZE)

\* C5: in the output of a completed run every packet of a recognised type
\* and of a size from 1 to 512 lies entirely inside one 512 byte block.
C5_SmallPacketsInsideOneBlock ==
    Completed =>
        \A m \in MatchSet(out) :
            LET rest == SliceFrom(out, m)
            IN  (/\ ~UnpackRaises(rest)
                 /\ PacketHeader_type(PacketHeader_from_bytes(rest)) # "Unknown"
                 /\ PacketHeader_from_bytes(rest).length \in 1..TAR_BLOCK_SIZE)
                => InsideOneBlock(out, m)

\* ------------------------------------------------------------------------
\* C6
\* ------------------------------------------------------------------------
\* C6: the packed block returned by the file packer holds the bytes of
\* every distinct file packet of the input exactly once, and while the
\* packer runs every distinct packet is either still in the list or once in
\* the bytes packed so far.
C6_EachFilePacketOnce ==
    /\ FileDataReturned =>
          \A p \in { DistinctFilePackets(in_file)[i] :
                        i \in 1..Len(DistinctFilePackets(in_file)) } :
              Occurrences(Packet_as_bytes(p), file_data) = 1
    /\ pc = "pack" =>
          \A p \in { DistinctFilePackets(in_file)[i] :
                        i \in 1..Len(DistinctFilePackets(in_file)) } :
              Occurrences(Packet_as_bytes(p), file_data)
                + Cardinality({ i \in 1..Len(file_packets) : file_packets[i] = p }) = 1

\* the packer has returned after a first-fit pass that appended two packets
\* to one bin, for an input that holds a second copy of one file packet
C6_Witness ==
    /\ FileDataReturned
    /\ Len(DistinctFilePackets(in_file)) = 3
    /\ Len(PacketsOfType(in_file, "FileDescription")
            \o PacketsOfType(in_file, "FileVerification")) = 4
    /\ Len(file_data) = TAR_BLOCK_SIZE

\* ------------------------------------------------------------------------
\* C7
\* ------------------------------------------------------------------------
\* C7: for file packets whose serialized length is their header length, the
\* length of the packed block is a multiple of 512 and at least the sum of the
\* packet sizes, and 0 when there is no file packet.
C7_PackedLength ==
    LET packets == DistinctFilePackets(in_file)
    IN  (FileDataReturned /\ \A i \in 1..Len(packets) : Whole(packets[i])) =>
            /\ Len(file_data) % TAR_BLOCK_SIZE = 0
            /\ Len(file_data) >= SumOfSizes(packets)
            /\ packets = <<>> => Len(file_data) = 0

\* the packer has returned more than one bin for three whole packets
C7_Witness ==
    LET packets == DistinctFilePackets(in_file)
    IN  /\ FileDataReturned
        /\ Len(packets) = 3
        /\ \A i \in 1..Len(packets) : Whole(packets[i])
        /\ Len(file_data) > TAR_BLOCK_SIZE
        /\ Len(file_data) > SumOfSizes(packets)

\* ------------------------------------------------------------------------
\* C8
\* ------------------------------------------------------------------------
\* C8: whenever the consolidator returns, the length of its merged bytes is
\* a multiple of 512.
C8_MergedIsWholeBlocks ==
    MainReturned => Len(main_data) % TAR_BLOCK_SIZE = 0

\* ------------------------------------------------------------------------
\* C9
\* ------------------------------------------------------------------------
\* the buffer scans without an exception and holds several Main packets or
\* several Creator packets, those of each type byte for byte the same
IdenticalDuplicates(data) ==
    LET mains    == PacketsOfType(data, "Main")
        creators == PacketsOfType(data, "Creator")
    IN  /\ ~ScanRaises(data)
        /\ mains # <<>>
        /\ Len(mains) > 1 \/ Len(creators) > 1
        /\ ByteIdentical(mains)
        /\ ByteIdentical(creators)

MainPayloadsDiffer(data) ==
    LET mains == PacketsOfType(data, "Main")
    IN  \E i, j \in 1..Len(mains) : mains[i].data # mains[j].data

\* C10 (read for buffers that scan without an exception and whose Creator
\* packets agree): when two Main packets of the input differ in a payload
\* byte, the consolidator fails with the error about different Main packets
\* and returns no merged bytes.
C10_DifferentMainsRejected ==
    (/\ MainPayloadsDiffer(in_file)
     /\ ~ScanRaises(in_file)
     /\ ~CreatorsDiffer(PacketsOfType(in_file, "Creator"))
     /\ pc # "get_main") =>
        /\ Failed
        /\ err = "ValueError: multiple different Main packets"
        /\ main_data = <<>>

\* ------------------------------------------------------------------------
\* C11
\* ------------------------------------------------------------------------
\* the Main packet and the Creator packet that _get_optimized_main uses are
\* whole in the buffer
UsedPacketsWhole(data) ==
    LET mains    == PacketsOfType(data, "Main")
        creators == PacketsOfType(data, "Creator")
    IN  /\ mains # <<>> /\ Whole(mains[1])
        /\ creators # <<>> => Whole(creators[1])

\* the size of the Creator packet that a run synthesizes
SynthesizedSize == Packet_len(NewCreatorPacket(ClientString(FirstDate), SetIdX))

\* the bytes left in the last block of the Main packet of the buffer
MainRemainder(data) == get_unused_block_size(Packet_len(PacketsOfType(data, "Main")[1]))

\* a second run of _get_optimized_main, on the date d, ends without error
\* with the merged bytes of the first run
SameMerged(data, d) ==
    LET again == get_optimized_main(data, d)
    IN  again.err = "" /\ again.out = main_data

\* C11 (as stated, read for inputs whose Main and Creator packets are whole
\* and for a second run on the same date): when the consolidator succeeds,
\* running it again on the same input and running it on its own merged
\* output both yield the merged bytes of the first run.
C11_Idempotent ==
    (MainReturned /\ UsedPacketsWhole(in_file)) =>
        SameMerged(in_file, today) /\ SameMerged(main_data, today)

\* C11 amended: when the consolidator succeeds, running it again on the same
\* input yields the same merged bytes on the same date, and on any date when
\* the input holds a Creator packet; running it on its own merged output
\* yields the same merged bytes, on any date, when the Main and Creator
\* packets used are whole and the Creator packet was merged in, or was not
\* and a synthesized Creator packet does not fit after the Main packet.
C11_RerunIdentical ==
    MainReturned =>
        /\ SameMerged(in_file, today)
        /\ PacketsOfType(in_file, "Creator") # <<>> =>
                \A d \in Dates : SameMerged(in_file, d)
        /\ (/\ UsedPacketsWhole(in_file)
            /\ \/ creator_packet = <<>>
               \/ SynthesizedSize > MainRemainder(in_file)) =>
                \A d \in Dates : SameMerged(main_data, d)

\* a run without Creator packet in its input has merged the Creator packet
\* it synthesized, and the date of a second run may differ
C11_Witness ==
    /\ MainReturned
    /\ PacketsOfType(in_file, "Creator") = <<>>
    /\ UsedPacketsWhole(in_file)
    /\ creator_packet = <<>>
    /\ today = FirstDate
    /\ Len(PacketsOfType(main_data, "Creator")) = 1

\* ------------------------------------------------------------------------
\* The packet functions called on their own: each action calls one function,
\* or one function after another, on arguments that the initial state draws
\* ------------------------------------------------------------------------
\* the largest payload length of the family of short payloads
MaxPayload == 4

\* packet_type arguments: the five keys of PACKET_TYPES, the default and a
\* string that is no key
TypeTags == DOMAIN PACKET_TYPES \cup { "Unknown", "Bogus" }

\* set_id arguments: the default b'', 16 bytes, 4 bytes, 18 bytes
SetIds == { <<>>, SetIdX, Slice(SetIdX, 0, 4), SetIdX \o <<1, 2>> }

\* data arguments
Payloads == { Fill(n, 3) : n \in 0..MaxPayload } \cup { Fill(44, 3) }

ComposeArgs ==
    { [kind |-> "compose", packet_type |-> t, set_id |-> s, data |-> d] :
        t \in TypeTags, s \in SetIds, d \in Payloads }

\* a == b as Python evaluates it: when type(b) is a proper subclass of type(a)
\* the reflected b.__eq__(a) is called first, and Packet.__eq__ never
\* returns NotImplemented
Eq(a, b) ==
    IF a.cls = "Packet" /\ b.cls = "CreatorPacket" THEN Packet_eq(b, a)
    ELSE Packet_eq(a, b)

\* p = Packet(packet_type, set_id, data); Packet.from_bytes(p.as_bytes())
RoundTrip ==
    /\ op = ""
    /\ arg.kind = "compose"
    /\ LET p == NewPacket("Packet", arg.packet_type, arg.set_id, arg.data)
       IN  ret' = [packet  |-> p,
                   bytes   |-> Packet_as_bytes(p),
                   decoded |-> Packet_from_bytes(Packet_as_bytes(p))]
    /\ op' = "round_trip"
    /\ UNCHANGED << arg, tar_vars >>

\* the length fields checked have at most MaxLengthBytes + 1 bytes that are
\* not zero
MaxLengthBytes == 2
Lengths == UNION { { 256^k - 1, 256^k, 256^k + 64 } : k \in 0..MaxLengthBytes }

\* headers whose magic has 8 bytes and whose hash, set_id and signature have
\* 16 bytes each
HeaderArgs ==
    { [kind |-> "header",
       header |-> [magic |-> g, length |-> n, hash |-> h, set_id |-> s,
                   signature |-> t]] :
        g \in { magic_expected, Fill(8, 7) }, n \in Lengths,
        h \in { Zeros(16), Fill(16, 29) }, s \in { SetIdX, Zeros(16) },
        t \in { PACKET_TYPES.Main, Fill(16, 5), Zeros(16) } }

\* 64 byte buffers: the number of seeds, and the buffer of a seed (the bytes
\* of the length field above the first MaxLengthBytes are zero)
MaxSeed == 6
Buffer64(seed) ==
    [i \in 1..64 |-> IF i > 8 + MaxLengthBytes /\ i <= 16 THEN 0
                     ELSE (i * seed + 7) % 256]
BufferArgs ==
    { [kind |-> "buffer", bytes |-> b] :
        b \in { Buffer64(seed) : seed \in 0..MaxSeed }
                \cup { Slice(MainA, 0, 64), Slice(CreatorA, 0, 64), RecoveryShort } }

\* PacketHeader.from_bytes(h.as_bytes())
HeaderRoundTrip ==
    /\ op = ""
    /\ arg.kind = "header"
    /\ ret' = [bytes   |-> PacketHeader_as_bytes(arg.header),
               decoded |-> PacketHeader_from_bytes(PacketHeader_as_bytes(arg.header))]
    /\ op' = "header_round_trip"
    /\ UNCHANGED << arg, tar_vars >>

\* PacketHeader.from_bytes(b).as_bytes()
BufferRoundTrip ==
    /\ op = ""
    /\ arg.kind = "buffer"
    /\ ret' = [decoded |-> PacketHeader_from_bytes(arg.bytes),
               bytes   |-> PacketHeader_as_bytes(PacketHeader_from_bytes(arg.bytes))]
    /\ op' = "buffer_round_trip"
    /\ UNCHANGED << arg, tar_vars >>

\* the largest number of packets in a scanned buffer
MaxStream == 2

\* valid serialized packets: a Main packet whose payload ends with "PAR2", a
\* Creator packet ("tool"), and a RecoveryBlock packet whose payload holds
\* the magic
StreamPackets ==
    { Compose("Main", Fill(8, 3) \o <<80, 65, 82, 50>>),
      Packet_as_bytes(NewCreatorPacket(<<116, 111, 111, 108>>, SetIdX)),
      Compose("RecoveryBlock",
              Fill(4, 31) \o magic_expected \o PackQ(40) \o Fill(62, 37)) }

\* padding: none, garbage, garbage that holds the magic, and garbage that
\* begins with the last four bytes of the magic (the 8 bytes after a magic
\* are read as the length field: they are kept below 2^31)
Paddings ==
    { <<>>, <<0, 255, 80>>, <<7>> \o magic_expected \o PackQ(2313),
      <<0, 80, 75, 84>> \o PackQ(7) }

\* N packets and the N + 1 paddings before, between and after them
StreamArgs ==
    UNION { { [kind |-> "stream", packets |-> ps, padding |-> pads] :
                ps \in [1..n -> StreamPackets], pads \in [1..(n + 1) -> Paddings] } :
            n \in 0..MaxStream }

\* the buffer: padding, packet, padding, ..., packet, padding
RECURSIVE StreamBytes_(_, _, _)
StreamBytes_(packets, padding, i) ==
    IF i > Len(packets) THEN padding[i]
    ELSE padding[i] \o packets[i] \o StreamBytes_(packets, padding, i + 1)
StreamBytes(a) == StreamBytes_(a.packets, a.padding, 1)

\* list(get_packets(data))
Scan ==
    /\ op = ""
    /\ arg.kind = "stream"
    /\ ret' = get_packets(StreamBytes(arg), "")
    /\ op' = "get_packets"
    /\ UNCHANGED << arg, tar_vars >>

\* buffers to decode one packet from: a serialized packet, whole, cut off
\* after n bytes, or followed by more bytes
DecodeArgs ==
    { [kind |-> "bytes", bytes |-> b] :
        b \in UNION { { Slice(p, 0, n) : n \in { 0, 15, 63, 64, 65, 80, Len(p) - 1, Len(p) } }
                        \cup { p \o Gap, p \o p } :
                      p \in { MainA, CreatorA, Compose("Main", <<>>), RecoveryShort } } }

\* Packet.from_bytes(data): the exception raised ("" for none) and the
\* packet returned (<<>> for none)
Decode ==
    /\ op = ""
    /\ arg.kind = "bytes"
    /\ ret' = IF UnpackRaises(arg.bytes)
              THEN [raised |-> "struct.error", packet |-> <<>>]
              ELSE [raised |-> "", packet |-> <<Packet_from_bytes(arg.bytes)>>]
    /\ op' = "from_bytes"
    /\ UNCHANGED << arg, tar_vars >>

\* CreatorPacket.from_bytes, for the bytes of a packet of type Creator (for
\* another type it raises ValueError)
CreatorPacket_from_bytes(data) ==
    [Packet_from_bytes(data) EXCEPT !.cls = "CreatorPacket"]

\* packets to compare: generic and Creator variant, composed and decoded,
\* with equal and with different headers, with equal headers and different
\* payloads
PairPackets ==
    { NewPacket("Packet", "Creator", SetIdX, <<116, 111, 111, 108, 32, 118, 49, 0>>),
      NewCreatorPacket(<<116, 111, 111, 108, 32, 118, 49>>, SetIdX),
      NewCreatorPacket(<<116, 111, 111, 108, 32, 118, 50>>, SetIdX),
      Packet_from_bytes(CreatorA),
      CreatorPacket_from_bytes(CreatorA),
      CreatorPacket_from_bytes(Slice(CreatorA, 0, 70)),
      Packet_from_bytes(MainA),
      Packet_from_bytes(MainACorrupt),
      Packet_from_bytes(Slice(MainA, 0, 80)),
      Packet_from_bytes(MainB),
      NewPacket("Packet", "Main", <<>>, Fill(44, 3)) }

PairArgs == { [kind |-> "pair", a |-> a, b |-> b] : a \in PairPackets, b \in PairPackets }

\* a == b and b == a
Compare ==
    /\ op = ""
    /\ arg.kind = "pair"
    /\ ret' = [ab |-> Eq(arg.a, arg.b), ba |-> Eq(arg.b, arg.a)]
    /\ op' = "eq"
    /\ UNCHANGED << arg, tar_vars >>

\* packets to validate, as Packet(header=..., data=...) builds them: every
\* combination of a right or wrong magic, signature, length field and hash
ValidityArgs ==
    { [kind |-> "packet",
       packet |-> [header |-> [magic |-> g, length |-> PACKET_HEADER_SIZE + Len(d) + n,
                               hash |-> h, set_id |-> s, signature |-> t],
                   data |-> d, cls |-> "Packet"]] :
        g \in { magic_expected, Fill(8, 7), <<>> },
        n \in { 0, 1, -1 },
        s \in { SetIdX, <<>> },
        t \in { PACKET_TYPES.Main, PACKET_TYPES.RecoveryBlock, Fill(16, 5), <<>> },
        d \in { <<>>, Fill(3, 3), Fill(44, 3) },
        h \in { md5(PackS(SetIdX, 16) \o PackS(PACKET_TYPES.Main, 16) \o Fill(44, 3)),
                md5(PackS(<<>>, 16) \o PackS(PACKET_TYPES.RecoveryBlock, 16) \o Fill(3, 3)),
                md5(PackS(<<>>, 16) \o PackS(Fill(16, 5), 16)),
                <<>> } }

\* p.is_valid()
IsValid ==
    /\ op = ""
    /\ arg.kind = "packet"
    /\ ret' = Packet_is_valid(arg.packet)
    /\ op' = "is_valid"
    /\ UNCHANGED << arg, tar_vars >>

CodecArgs ==
    ComposeArgs \cup HeaderArgs \cup BufferArgs \cup StreamArgs \cup DecodeArgs
        \cup PairArgs \cup ValidityArgs

CodecInit ==
    /\ arg \in CodecArgs
    /\ op = ""
    /\ ret = <<>>
    /\ in_file = <<>>
    /\ today = FirstDate
    /\ pc = ""
    /\ err = ""
    /\ out = <<>>
    /\ written = 0
    /\ main_data = <<>>
    /\ creator_packet = <<>>
    /\ file_packets = <<>>
    /\ file_data = <<>>
    /\ recovery = [packets |-> <<>>, raised |-> FALSE]
    /\ recovery_count = 0
    /\ recovery_written = 0

CodecNext ==
    \/ RoundTrip
    \/ HeaderRoundTrip
    \/ BufferRoundTrip
    \/ Scan
    \/ Decode
    \/ Compare
    \/ IsValid

CodecSpec == CodecInit /\ [][CodecNext]_vars

\* ------------------------------------------------------------------------
\* C12
\* ------------------------------------------------------------------------
\* C12: for any packet p built by the composing constructor (any type tag,
\* any set_id, any payload), decoding the serialization of p yields a packet
\* equal to p.
C12_RoundTripEqual ==
    op = "round_trip" => Eq(ret.decoded, ret.packet)

\* ------------------------------------------------------------------------
\* C13
\* ------------------------------------------------------------------------
\* C13 (as stated): for any packet p built by the composing constructor (any
\* type tag, any set_id, any payload), the packet decoded from the
\* serialization of p passes is_valid().
C13_RoundTripValid ==
    op = "round_trip" => Packet_is_valid(ret.decoded)

\* C13 amended: for any packet p built by the composing constructor with one
\* of the five recognized type tags (any set_id, any payload), the packet
\* decoded from the serialization of p passes is_valid(), and so does p; with
\* any other type tag neither does.
C13_RecognizedRoundTripValid ==
    op = "round_trip" =>
        /\ Packet_is_valid(ret.decoded) = (arg.packet_type \in DOMAIN PACKET_TYPES)
        /\ Packet_is_valid(ret.packet) = (arg.packet_type \in DOMAIN PACKET_TYPES)

\* a Main packet built with an 18 byte set_id and a payload has been
\* serialized and decoded
C13_Witness ==
    /\ op = "round_trip"
    /\ arg.packet_type = "Main"
    /\ Len(arg.set_id) = 18
    /\ arg.data = Fill(44, 3)
    /\ Len(ret.bytes) = 108

\* ------------------------------------------------------------------------
\* C14
\* ------------------------------------------------------------------------
\* C14: for any header h whose magic is 8 bytes and whose hash, set_id and
\* signature are 16 bytes each, decoding the encoding of h gives h; and for
\* any 64 byte buffer b, encoding the decoding of b gives b.
C14_HeaderRoundTrip ==
    /\ op = "header_round_trip" =>
            Len(ret.bytes) = size_bytes /\ ret.decoded = arg.header
    /\ op = "buffer_round_trip" => ret.bytes = arg.bytes

\* a 64 byte buffer that is no packet header, with a length field of more
\* than one byte, has been decoded and encoded
C14_Witness ==
    /\ op = "buffer_round_trip"
    /\ ret.decoded.magic # magic_expected
    /\ ret.decoded.length > 255

\* ------------------------------------------------------------------------
\* C15
\* ------------------------------------------------------------------------
\* the 0-based offsets at which the packets of a stream start
RECURSIVE PacketStarts_(_, _, _, _)
PacketStarts_(packets, padding, i, offset) ==
    IF i > Len(packets) THEN {}
    ELSE { offset + Len(padding[i]) }
            \cup PacketStarts_(packets, padding, i + 1,
                               offset + Len(padding[i]) + Len(packets[i]))
PacketStarts(a) == PacketStarts_(a.packets, a.padding, 1, 0)

\* the scan has yielded exactly the N packets of the stream, in order, and
\* each passes is_valid()
YieldsThePackets ==
    /\ ~ret.raised
    /\ Len(ret.packets) = Len(arg.packets)
    /\ \A i \in 1..Len(arg.packets) :
            /\ Packet_as_bytes(ret.packets[i]) = arg.packets[i]
            /\ Packet_is_valid(ret.packets[i])

\* C15 (as stated): for a buffer made of N valid serialized packets with
\* arbitrary padding between and around them, scanning without a type filter
\* yields exactly N packets, all valid, in their order in the buffer.
C15_ScanYieldsAll ==
    op = "get_packets" => YieldsThePackets

\* C15 amended: for a buffer made of N valid serialized packets with padding
\* between and around them, in which the 8 byte magic occurs at the starts of
\* the N packets only, scanning without a type filter yields exactly N
\* packets, all valid, in their order in the buffer.
C15_ScanYieldsAllWhenMagicUnique ==
    (op = "get_packets" /\ MatchSet(StreamBytes(arg)) = PacketStarts(arg)) =>
        YieldsThePackets

\* two different packets with garbage before, between and after them have
\* been scanned
C15_Witness ==
    /\ op = "get_packets"
    /\ Len(arg.packets) = 2
    /\ arg.packets[1] # arg.packets[2]
    /\ \A i \in 1..3 : arg.padding[i] = <<0, 255, 80>>
    /\ MatchSet(StreamBytes(arg)) = PacketStarts(arg)
    /\ Len(ret.packets) = 2

\* ------------------------------------------------------------------------
\* C16
\* ------------------------------------------------------------------------
\* C16: the scanner never fails on a malformed candidate (such as a magic
\* with fewer than 64 bytes after it): the candidate is skipped and the scan
\* goes on.
C16_ScanNeverFails ==
    op = "get_packets" => ~ret.raised

\* ------------------------------------------------------------------------
\* C17
\* ------------------------------------------------------------------------
\* C17: decoding a packet fails with an error whenever the buffer holds fewer
\* bytes than the length field of the header demands; it never returns a
\* packet whose payload is shorter than header.length - 64.
C17_TruncatedDecodeFails ==
    op = "from_bytes" =>
        /\ (~UnpackRaises(arg.bytes)
              /\ Len(arg.bytes) < PacketHeader_from_bytes(arg.bytes).length) =>
                ret.raised # ""
        /\ ret.raised = "" =>
                Len(ret.packet[1].data) >= ret.packet[1].header.length - PACKET_HEADER_SIZE

\* ------------------------------------------------------------------------
\* C18
\* ------------------------------------------------------------------------
\* C18 (as stated): for any two packets a and b (generic or Creator
\* variant), a == b is true exactly when their headers are equal; the payload
\* is not compared; and a == b gives what b == a gives.
C18_EqualIffHeadersEqual ==
    op = "eq" =>
        /\ ret.ab = (arg.a.header = arg.b.header)
        /\ ret.ab = ret.ba

\* C18 amended: for any two packets a and b, a == b is true exactly when
\* their headers are equal and a and b are of the same variant (both generic
\* or both Creator); the payload is not compared; and a == b gives what
\* b == a gives.
C18_EqualIffSameVariantAndHeader ==
    op = "eq" =>
        /\ ret.ab = (arg.a.header = arg.b.header /\ arg.a.cls = arg.b.cls)
        /\ ret.ab = ret.ba

\* two packets of the same variant with equal headers and different payloads
\* have been compared, and are equal
C18_Witness ==
    /\ op = "eq"
    /\ arg.a.cls = arg.b.cls
    /\ arg.a.header = arg.b.header
    /\ arg.a.data # arg.b.data
    /\ ret.ab /\ ret.ba

\* ------------------------------------------------------------------------
\* C19
\* ------------------------------------------------------------------------
\* the five signatures of PACKET_TYPES
FiveSignatures == { PACKET_TYPES[k] : k \in DOMAIN PACKET_TYPES }

\* C19: is_valid() is true exactly when the magic of the header is the
\* constant, its signature is one of the five type constants, the payload
\* length plus 64 is header.length, and header.hash is the digest of the
\* header bytes [32:64) followed by the payload.
C19_ValidIff ==
    op = "is_valid" =>
        LET p == arg.packet
        IN  ret = (/\ p.header.magic = magic_expected
                   /\ p.header.signature \in FiveSignatures
                   /\ Len(p.data) + 64 = p.header.length
                   /\ p.header.hash
                        = md5(Slice(PacketHeader_as_bytes(p.header), 32, 64) \o p.data))

\* a packet with a payload has been found valid
C19_Witness ==
    /\ op = "is_valid"
    /\ arg.packet.data = Fill(44, 3)
    /\ ret = TRUE

\* ------------------------------------------------------------------------
\* C20
\* ------------------------------------------------------------------------
\* the Creator packet that _get_optimized_main uses for the buffer on the
\* date: the first of the buffer, or the one it synthesizes
CreatorUsed(data, date) ==
    LET creators == PacketsOfType(data, "Creator")
    IN  IF creators = <<>>
        THEN NewCreatorPacket(ClientString(date),
                              PacketsOfType(data, "Main")[1].header.set_id)
        ELSE creators[1]

\* C20: with r the bytes left in the last 512 byte block of the Main packet:
\* when the size of the Creator packet (of the input, or synthesized) is at
\* most r, the merged bytes are the Main packet, the Creator packet and zero
\* padding, and no Creator packet is returned separately; otherwise the
\* merged bytes are the Main packet and zero padding only, the Creator
\* packet is returned separately, and optimize_for_tar writes no Creator
\* packet anywhere in its output.
C20_CreatorMergedOrDropped ==
    MainReturned =>
        LET main    == PacketsOfType(in_file, "Main")[1]
            creator == CreatorUsed(in_file, today)
            r       == MainRemainder(in_file)
        IN  IF Packet_len(creator) <= r
            THEN /\ main_data = Packet_as_bytes(main) \o Packet_as_bytes(creator)
                                    \o Zeros(r - Packet_len(creator))
                 /\ creator_packet = <<>>
            ELSE /\ main_data = Packet_as_bytes(main) \o Zeros(r)
                 /\ creator_packet = <<creator>>
                 /\ OffsetsOfType(out, "Creator") = <<>>

\* a run has completed whose input holds a Creator packet that did not fit
\* after the Main packet
C20_Witness ==
    /\ Completed
    /\ PacketsOfType(in_file, "Creator") # <<>>
    /\ creator_packet # <<>>
    /\ Len(out) > Len(main_data)

\* ------------------------------------------------------------------------
\* C21
\* ------------------------------------------------------------------------
\* the packets, each followed by zeros up to the next multiple of 512 of the
\* bytes written so far
RECURSIVE AlignedEach(_)
AlignedEach(packets) ==
    IF packets = <<>> THEN <<>>
    ELSE LET bytes == Packet_as_bytes(Head(packets))
             pad   == (TAR_BLOCK_SIZE - (Len(bytes) % TAR_BLOCK_SIZE)) % TAR_BLOCK_SIZE
         IN  bytes \o Zeros(pad) \o AlignedEach(Tail(packets))

\* C21: optimize_for_tar writes the RecoveryBlock packets in the order of the
\* input, one write per occurrence (equal packets are not collapsed), each
\* followed by zero padding up to the next 512 byte boundary, so that no two
\* recovery packets share a 512 byte block.
C21_RecoveryInOrderBlockAligned ==
    pc = "recovery" =>
        LET found == recovery_count + Len(recovery.packets)
            all   == PacketsOfType(in_file, "RecoveryBlock")
        IN  /\ recovery.packets = SubSeq(all, recovery_count + 1, found)
            /\ out = main_data \o file_data
                        \o AlignedEach(SubSeq(all, 1, recovery_count))
            /\ Len(out) % TAR_BLOCK_SIZE = 0

\* ------------------------------------------------------------------------
\* optimize_for_tar with the opening of its files, lines 380-393
\* ------------------------------------------------------------------------
\* how in_file and out are passed, and whether mmap.mmap raises mmap.error
OpenArgs ==
    { a \in [in_kind    : { "str", "Path", "bytes" },
             out_kind   : { "str", "Path", "BufferedIOBase" },
             mmap_error : BOOLEAN] :
        a.mmap_error => a.in_kind # "bytes" }

\* the input files read
OpenLayouts ==
    { l \in Layouts :
        /\ l.files = <<FileCatalog[2]>> /\ l.recs = <<RecoveryCatalog[1]>>
        /\ l.creators = <<CreatorA>>
        /\ l.tail \in { <<>>, magic_expected \o <<9, 9, 9, 9>> } }

NoHandles == [in_file_handle |-> "none", in_mmap |-> "none", out_handle |-> "none"]

OpenInit ==
    /\ \E l \in OpenLayouts : in_file = Render(l) /\ today = l.date
    /\ arg \in OpenArgs
    /\ op = ""
    /\ ret = NoHandles
    /\ pc = "open_in"
    /\ err = ""
    /\ out = <<>>
    /\ written = 0
    /\ main_data = <<>>
    /\ creator_packet = <<>>
    /\ file_packets = <<>>
    /\ file_data = <<>>
    /\ recovery = [packets |-> <<>>, raised |-> FALSE]
    /\ recovery_count = 0
    /\ recovery_written = 0

\* lines 380-387
OpenInput ==
    /\ pc = "open_in"
    /\ IF arg.in_kind = "bytes"
       THEN /\ ret' = ret
            /\ pc' = "open_out"
            /\ err' = err
       ELSE IF arg.mmap_error
            THEN /\ ret' = [ret EXCEPT !.in_file_handle = "closed"]
                 /\ pc' = "failed"
                 /\ err' = "mmap.error"
            ELSE /\ ret' = [ret EXCEPT !.in_file_handle = "open", !.in_mmap = "open"]
                 /\ pc' = "open_out"
                 /\ err' = err
    /\ UNCHANGED << arg, op, in_file, today, out, written, main_data,
                    creator_packet, file_packets, file_data, recovery,
                    recovery_count, recovery_written >>

\* lines 389-392
OpenOutput ==
    /\ pc = "open_out"
    /\ ret' = IF arg.out_kind = "BufferedIOBase" THEN ret
              ELSE [ret EXCEPT !.out_handle = "open"]
    /\ pc' = "get_main"
    /\ UNCHANGED << arg, op, in_file, today, err, out, written, main_data,
                    creator_packet, file_packets, file_data, recovery,
                    recovery_count, recovery_written >>

OpenNext ==
    \/ OpenInput
    \/ OpenOutput
    \/ GetOptimizedMain
    \/ WriteMain
    \/ GetFilePackets
    \/ PackBin
    \/ WriteFileData
    \/ AssertWholeBlocks
    \/ WriteRecoveryPacket
    \/ WriteFileDataAgain
    \/ WriteMainAgain

OpenSpec == OpenInit /\ [][OpenNext]_vars

\* ------------------------------------------------------------------------
\* C22
\* ------------------------------------------------------------------------
\* C22: every file handle that optimize_for_tar opens itself (the input file
\* given as a path, the destination given as a path) is released on every
\* exit path, after a successful run and after a failure.
C22_HandlesReleased ==
    (Completed \/ Failed) =>
        /\ ret.in_file_handle # "open"
        /\ ret.in_mmap # "open"
        /\ ret.out_handle # "open"

\* ------------------------------------------------------------------------
\* Helpers: frange (fpdf/template_helpers.py) and _get_unused_block_size
\* ------------------------------------------------------------------------
MaxAbs == 5
MaxStep == 3
MaxUsed == 1100

\* Python's divmod on integers: the quotient is rounded towards minus
\* infinity and the remainder has the sign of the divisor
divmod(a, b) ==
    LET q == IF b > 0 THEN a \div b ELSE (0 - a) \div (0 - b)
    IN  << q, a - (b * q) >>

\* frange.__init__
frange(start, stop, step, include_stop) ==
    IF step = 0
    THEN [raised |-> "ValueError: step must not be zero"]
    ELSE [raised |-> "", start |-> start, stop |-> stop, step |-> step,
          include_stop |-> include_stop]

\* frange.__len__ counting whole steps only
frange_len_WholeStepsOnly(self) ==
    LET dm  == divmod(self.stop - self.start, self.step)
        len == IF self.include_stop /\ dm[2] = 0 THEN dm[1] + 1 ELSE dm[1]
    IN  IF len > 0 THEN len ELSE 0

\* frange.__len__
frange_len(self) ==
    LET dm  == divmod(self.stop - self.start, self.step)
        len == IF dm[2] # 0 THEN dm[1] + 1
               ELSE IF self.include_stop THEN dm[1] + 1
               ELSE dm[1]
    IN  IF len > 0 THEN len ELSE 0

\* frange.__getitem__ with an integer key
frange_getitem(self, key) ==
    IF key >= frange_len(self)
    THEN [raised |-> "IndexError: index out of range", value |-> 0]
    ELSE [raised |-> "", value |-> (self.step * key) + self.start]

\* Sequence.__iter__: self[0], self[1], ... until IndexError
RECURSIVE frange_iter(_, _)
frange_iter(self, i) ==
    LET v == frange_getitem(self, i)
    IN  IF v.raised # "" THEN <<>>
        ELSE <<v.value>> \o frange_iter(self, i + 1)

\* the built-in range(start, stop, step), step non-zero
range(start, stop, step) ==
    LET dist == IF stop >= start THEN stop - start ELSE start - stop
        n    == Cardinality({ i \in 0..dist :
                    \/ step > 0 /\ start + (i * step) < stop
                    \/ step < 0 /\ start + (i * step) > stop })
    IN  [i \in 1..n |-> start + ((i - 1) * step)]

FrangeArgs ==
    { a \in [kind : { "frange" }, start : (0 - MaxAbs)..MaxAbs,
             stop : (0 - MaxAbs)..MaxAbs, step : (0 - MaxStep)..MaxStep,
             has_step : BOOLEAN, include_stop : BOOLEAN] :
        ~a.has_step => a.step = 1 }

UsedArgs == [kind : { "used" }, used : 0..MaxUsed]

\* list(frange(start, stop[, step][, include_stop]))
Frange ==
    /\ op = ""
    /\ arg.kind = "frange"
    /\ LET self == frange(arg.start, arg.stop,
                          IF arg.has_step THEN arg.step ELSE 1,
                          arg.include_stop)
       IN  ret' = IF self.raised # ""
                  THEN [raised |-> self.raised, items |-> <<>>]
                  ELSE [raised |-> "", items |-> frange_iter(self, 0)]
    /\ op' = "frange"
    /\ UNCHANGED << arg, tar_vars >>

\* _get_unused_block_size(used)
UnusedBlockSize ==
    /\ op = ""
    /\ arg.kind = "used"
    /\ ret' = get_unused_block_size(arg.used)
    /\ op' = "unused"
    /\ UNCHANGED << arg, tar_vars >>

HelperInit ==
    /\ arg \in FrangeArgs \cup UsedArgs
    /\ op = ""
    /\ ret = <<>>
    /\ in_file = <<>>
    /\ today = FirstDate
    /\ pc = ""
    /\ err = ""
    /\ out = <<>>
    /\ written = 0
    /\ main_data = <<>>
    /\ creator_packet = <<>>
    /\ file_packets = <<>>
    /\ file_data = <<>>
    /\ recovery = [packets |-> <<>>, raised |-> FALSE]
    /\ recovery_count = 0
    /\ recovery_written = 0

HelperNext ==
    \/ Frange
    \/ UnusedBlockSize

HelperSpec == HelperInit /\ [][HelperNext]_vars

\* ------------------------------------------------------------------------
\* C23
\* ------------------------------------------------------------------------
\* C23: for all integers start and stop and every non-zero integer step,
\* iterating frange(start, stop, step) yields exactly the sequence
\* range(start, stop, step), the step being 1 when it is not given, and the
\* sequence is empty when start >= stop for a positive step; a zero step
\* raises ValueError("step must not be zero").
C23_FrangeIsRange ==
    (op = "frange" /\ ~arg.include_stop) =>
        LET step == IF arg.has_step THEN arg.step ELSE 1
        IN  IF step = 0
            THEN ret.raised = "ValueError: step must not be zero"
            ELSE /\ ret.raised = ""
                 /\ ret.items = range(arg.start, arg.stop, step)
                 /\ (step > 0 /\ arg.start >= arg.stop) => ret.items = <<>>

\* a descending frange whose last step stops short of stop
C23_Witness ==
    /\ op = "frange"
    /\ ~arg.include_stop
    /\ arg.has_step
    /\ arg.step = 0 - 2
    /\ arg.start - arg.stop = 5
    /\ Len(ret.items) = 3

\* ------------------------------------------------------------------------
\* C24
\* ------------------------------------------------------------------------
\* C24: for every integer used >= 0 the padding helper returns r with
\* 0 <= r <= 511 and (used + r) % 512 = 0, and r = 0 exactly when used is a
\* multiple of 512, also for used larger than one block.
C24_PaddingToBlock ==
    op = "unused" =>
        /\ 0 <= ret
        /\ ret <= 511
        /\ (arg.used + ret) % 512 = 0
        /\ (ret = 0) <=> (\E k \in 0..arg.used : arg.used = 512 * k)

\* a full second block: used = 1024 needs no padding
C24_Witness ==
    /\ op = "unused"
    /\ arg.used = 1024
    /\ ret = 0

\* ------------------------------------------------------------------------
\* C25
\* ------------------------------------------------------------------------
\* the whole loop of lines 343-362 on a sorted list
RECURSIVE PackedBlock(_)
PackedBlock(packets) ==
    IF packets = <<>> THEN <<>>
    ELSE LET bin == PackOneBin(packets)
         IN  bin.out \o PackedBlock(bin.file_packets)

\* the packed block of the run in which list(set) keeps the order of the scan
ScanOrderBlock(data) == PackedBlock(SortBySizeDescending(DistinctFilePackets(data)))

\* C25: the file packer is deterministic: two runs on the same input give a
\* byte-identical packed block, also when several file packets have the same
\* size. The run whose list(set) keeps the scan order is one of the runs, so
\* every run's block must equal that run's block.
C25_PackerDeterministic ==
    FileDataReturned => file_data = ScanOrderBlock(in_file)

\* ------------------------------------------------------------------------
\* C26
\* ------------------------------------------------------------------------
\* the bytes of the block that are free after a packet of this size
SpaceAfter(size) == (TAR_BLOCK_SIZE - (size % TAR_BLOCK_SIZE)) % TAR_BLOCK_SIZE

\* C26: in the file packer, when the space left in the bin after its leading
\* packet is at most 64 bytes, the bin is closed without a packing pass (the
\* leading packet and the padding are all it gets), and nothing is lost by
\* that: no still-unpacked packet would have fit in the space left.
C26_EarlyCloseLosesNothing ==
    [][ (/\ pc = "pack"
         /\ file_packets # <<>>
         /\ file_packets' # file_packets
         /\ SpaceAfter(Packet_len(Head(file_packets))) <= PACKET_HEADER_SIZE)
        =>
            LET space == SpaceAfter(Packet_len(Head(file_packets)))
            IN  /\ file_packets' = Tail(file_packets)
                /\ file_data' = file_data \o Packet_as_bytes(Head(file_packets))
                                          \o Zeros(space)
                /\ \A i \in 2..Len(file_packets) :
                       Packet_len(file_packets[i]) > space ]_vars

\* ------------------------------------------------------------------------
\* C27
\* ------------------------------------------------------------------------
RECURSIVE SumOfBytes(_)
SumOfBytes(packets) ==
    IF packets = <<>> THEN 0
    ELSE Len(Packet_as_bytes(Head(packets))) + SumOfBytes(Tail(packets))

\* the packets of `before` that are not in `after`
Removed(before, after) ==
    SelectSeq(before, LAMBDA p : \A j \in 1..Len(after) : after[j] # p)

\* C27: in the file packer each bin is opened by the largest still-unpacked
\* packet, and when a bin is closed after the single left-to-right first-fit
\* pass, every still-unpacked packet is strictly larger than the number of
\* padding bytes written to close that bin.
C27_LargestOpensPassLeavesMisfits ==
    [][ (pc = "pack" /\ file_packets # <<>> /\ file_packets' # file_packets)
        =>
            LET packet  == Head(file_packets)
                appended == Len(file_data') - Len(file_data)
                padding == appended - SumOfBytes(Removed(file_packets, file_packets'))
            IN  /\ \A i \in 1..Len(file_packets) :
                       Packet_len(packet) >= Packet_len(file_packets[i])
                /\ SubSeq(file_data', Len(file_data) + 1,
                          Len(file_data) + Len(Packet_as_bytes(packet)))
                       = Packet_as_bytes(packet)
                /\ SpaceAfter(Packet_len(packet)) > PACKET_HEADER_SIZE
                       => \A j \in 1..Len(file_packets') :
                              Packet_len(file_packets'[j]) > padding ]_vars

\* after the bin of the 600-byte packet took the 200-byte packet behind the
\* 448-byte packet that did not fit, the 448-byte packet is still unpacked
C27_Witness ==
    /\ pc = "pack"
    /\ Len(file_data) = 1024
    /\ Len(file_packets) = 1
    /\ Packet_len(Head(file_packets)) = 448

\* ------------------------------------------------------------------------
\* C28
\* ------------------------------------------------------------------------
\* the packets that a run copies from the buffer: the first Main packet, the
\* distinct file packets and every recovery packet (the Creator packet that
\* is written is built anew from the client strings)
CopiedPackets(data) ==
    LET mains == PacketsOfType(data, "Main")
    IN  (IF mains = <<>> THEN <<>> ELSE <<mains[1]>>)
            \o DistinctFilePackets(data)
            \o PacketsOfType(data, "RecoveryBlock")

\* C28: for any input buffer on which optimize_for_tar completes, every packet
\* copied into the output passes is_valid(): a scanned packet whose hash or
\* length does not match its header is never written.
C28_OnlyValidPacketsCopied ==
    Completed =>
        \A i \in 1..Len(CopiedPackets(in_file)) :
            Packet_is_valid(CopiedPackets(in_file)[i])

\* ------------------------------------------------------------------------
\* C29
\* ------------------------------------------------------------------------
\* optimize_for_tar runs in one thread and the interpreter always executes
\* the next statement: an iteration of the loop that is possible is
\* eventually taken, and so is the return after the loop
LiveSpec == Spec /\ WF_vars(PackBin) /\ WF_vars(WriteFileData)

\* `after` is `before` without some of its packets, the others in their order
Shrunk(before, after) ==
    /\ Len(after) < Len(before)
    /\ after = SelectSeq(before, LAMBDA p : \E j \in 1..Len(after) : after[j] = p)

\* C29: the file packer's loop terminates: each outer iteration removes at
\* least one packet from the list of unpacked packets and none is ever put
\* back, so the list eventually becomes empty and the packed block is
\* returned.
C29_PackerTerminates ==
    /\ [][ (pc = "pack" /\ pc' = "pack") => Shrunk(file_packets, file_packets') ]_file_packets
    /\ (pc = "pack") ~> (pc = "assert" /\ file_packets = <<>>)

\* the packed block of three file packets has been returned after more than
\* one iteration
C29_Witness ==
    /\ pc = "assert"
    /\ file_packets = <<>>
    /\ Len(DistinctFilePackets(in_file)) = 3
    /\ Len(file_data) >= 2 * TAR_BLOCK_SIZE

====
